---- MODULE Spec2Model ----
(***************************************************************************)
(* Model of the cache-aware retrieval-and-answer pipeline of the medical   *)
(* assistant backend: core/cache.py, core/persona.py, services/rag.py,     *)
(* services/llm.py, services/vector_store.py, api/routes/chat.py and       *)
(* api/routes/voice.py.                                                    *)
(*                                                                         *)
(* Python strings are sequences of one-character strings.  Scores and      *)
(* confidences are exact fractions <<numerator, denominator>> in lowest    *)
(* terms; chunk scores are given in hundredths.                            *)
(***************************************************************************)
EXTENDS Integers, Sequences, FiniteSets, TLC

VARIABLES store, task, started, purge, arg, res

vars == <<store, task, started, purge, arg, res>>

----------------------------------------------------------------------------
(* Bounds of the model *)

MaxTasks == 1

MaxRequests == 2

MaxMatches == 2

MaxCacheOps == 3

TickStep == 1800

MaxChunks == 3

MaxConcurrent == 2

----------------------------------------------------------------------------
(* Program constants *)

CACHE_TTL == 3600

DigestLen == 32

\* The top_k RAGPipeline.query falls back to (rag.py) and the default of
\* its parameter.
DefaultTopK == 3

QueryTopK == 10

\* settings.TOP_K_RESULTS (config.py)
TOP_K_RESULTS == 5

\* ChatRequest.query: Field(..., max_length=500)
max_length == 500

----------------------------------------------------------------------------
(* Characters and strings *)

Printable ==
    << " ", "!", "\"", "#", "$", "%", "&", "'", "(", ")", "*", "+", ",", "-", ".", "/",
       "0", "1", "2", "3", "4", "5", "6", "7", "8", "9", ":", ";", "<", "=", ">", "?",
       "@", "A", "B", "C", "D", "E", "F", "G", "H", "I", "J", "K", "L", "M", "N", "O",
       "P", "Q", "R", "S", "T", "U", "V", "W", "X", "Y", "Z", "[", "\\", "]", "^", "_",
       "GRAVE", "a", "b", "c", "d", "e", "f", "g", "h", "i", "j", "k", "l", "m", "n", "o",
       "p", "q", "r", "s", "t", "u", "v", "w", "x", "y", "z", "{", "|", "}", "~" >>
    \* (position 65, the grave accent, holds a placeholder the lexer accepts)

Whitespace == {" ", "\t", "\n", "\r", "\f"}

HexDigits == << "0", "1", "2", "3", "4", "5", "6", "7",
                "8", "9", "a", "b", "c", "d", "e", "f" >>

\* The byte str.encode() produces for an ASCII character.
CharCode(c) ==
    CASE c = "\t" -> 9
      [] c = "\n" -> 10
      [] c = "\f" -> 12
      [] c = "\r" -> 13
      [] OTHER -> 31 + (CHOOSE i \in 1..Len(Printable) : Printable[i] = c)

\* str.lower() on one character.
LowerChar(c) ==
    IF CharCode(c) >= 65 /\ CharCode(c) <= 90
    THEN Printable[CharCode(c) + 32 - 31]
    ELSE c

\* str.lower()
Lower(s) == [i \in 1..Len(s) |-> LowerChar(s[i])]

RECURSIVE LStrip(_)
LStrip(s) ==
    IF s # <<>> /\ Head(s) \in Whitespace THEN LStrip(Tail(s)) ELSE s

RECURSIVE RStrip(_)
RStrip(s) ==
    IF s # <<>> /\ s[Len(s)] \in Whitespace
    THEN RStrip(SubSeq(s, 1, Len(s) - 1))
    ELSE s

\* str.strip()
Strip(s) == RStrip(LStrip(s))

\* sub in s
Contains(s, sub) ==
    \E i \in 0..(Len(s) - Len(sub)) : SubSeq(s, i + 1, i + Len(sub)) = sub

StartsWith(s, prefix) ==
    Len(s) >= Len(prefix) /\ SubSeq(s, 1, Len(prefix)) = prefix

----------------------------------------------------------------------------
(* Exact fractions for float scores and confidences *)

RECURSIVE Gcd(_, _)
Gcd(a, b) == IF b = 0 THEN a ELSE Gcd(b, a % b)

Frac(n, d) == IF n = 0 THEN <<0, 1>> ELSE <<n \div Gcd(n, d), d \div Gcd(n, d)>>

FracLess(a, b) == a[1] * b[2] < b[1] * a[2]

FracMin(a, b) == IF FracLess(b, a) THEN b ELSE a

Zero == Frac(0, 1)

One == Frac(1, 1)

Half == Frac(1, 2)

----------------------------------------------------------------------------
(* core/cache.py: key derivation *)

\* Optional values: None is the empty sequence, a present value x is <<x>>.
None == <<>>

Some(x) == <<x>>

HexByte(n) == <<HexDigits[(n \div 16) + 1], HexDigits[(n % 16) + 1]>>

\* Two hexadecimal digits for each character of s.
HexEncode(s) ==
    [i \in 1..(2 * Len(s)) |-> HexByte(CharCode(s[(i + 1) \div 2]))[2 - (i % 2)]]

PadRight(s, n) ==
    IF Len(s) >= n THEN s ELSE s \o [i \in 1..(n - Len(s)) |-> "0"]

\* hashlib.md5(content.encode()).hexdigest(): the digest is taken to be
\* injective on its input and is a string of hexadecimal digits.  It is
\* rendered as the hexadecimal bytes of the content, zero-filled to the
\* digest length (no content byte is zero, so the filling loses nothing).
Md5Hex(content) == PadRight(HexEncode(content), DigestLen)

KeyPrefix == <<"c", "h", "a", "t", ":">>

KeyContent(query, session_id) == Strip(Lower(query)) \o <<":">> \o session_id

\* The key without the lower-casing and trimming of the query.
_generate_key_Raw(query, session_id) ==
    KeyPrefix \o Md5Hex(query \o <<":">> \o session_id)

_generate_key(query, session_id) ==
    KeyPrefix \o Md5Hex(KeyContent(query, session_id))

\* Redis KEYS glob matching: '*' matches any run of characters, '?' matches
\* one character, every other character matches itself.
RECURSIVE GlobMatch(_, _)
GlobMatch(p, s) ==
    IF p = <<>> THEN s = <<>>
    ELSE IF Head(p) = "*"
         THEN GlobMatch(Tail(p), s) \/ (s # <<>> /\ GlobMatch(p, Tail(s)))
         ELSE /\ s # <<>>
              /\ (Head(p) = "?" \/ Head(p) = Head(s))
              /\ GlobMatch(Tail(p), Tail(s))

ClearPattern(session_id) == KeyPrefix \o <<"*", ":">> \o session_id

\* json.dumps of a dict: the members in insertion order.
JsonDumps(d, fields) == [i \in 1..Len(fields) |-> <<fields[i], d[fields[i]]>>]

\* json.loads of the text json.dumps produced.
JsonLoads(text) ==
    [k \in {text[i][1] : i \in 1..Len(text)} |->
        (text[CHOOSE i \in 1..Len(text) : text[i][1] = k])[2]]

CacheFields == <<"response", "sources", "confidence">>

----------------------------------------------------------------------------
(* core/persona.py *)

emergency_keywords ==
    << <<"c", "h", "e", "s", "t", " ", "p", "a", "i", "n">>,
       <<"h", "e", "a", "r", "t", " ", "a", "t", "t", "a", "c", "k">>,
       <<"s", "t", "r", "o", "k", "e">>,
       <<"c", "a", "n", "'", "t", " ", "b", "r", "e", "a", "t", "h", "e">>,
       <<"s", "e", "v", "e", "r", "e", " ", "b", "l", "e", "e", "d", "i", "n", "g">>,
       <<"u", "n", "c", "o", "n", "s", "c", "i", "o", "u", "s">>,
       <<"s", "u", "i", "c", "i", "d", "e">>,
       <<"o", "v", "e", "r", "d", "o", "s", "e">>,
       <<"s", "e", "v", "e", "r", "e", " ", "p", "a", "i", "n">>,
       <<"e", "m", "e", "r", "g", "e", "n", "c", "y">>,
       <<"d", "y", "i", "n", "g">> >>

\* The detection without the lower-casing of the query.
detect_emergency_keywords_CaseSensitive(query) ==
    \E i \in 1..Len(emergency_keywords) :
        Contains(query, emergency_keywords[i])

detect_emergency_keywords(query) ==
    \E i \in 1..Len(emergency_keywords) :
        Contains(Lower(query), emergency_keywords[i])

\* Response texts are sequences of named text segments.
LowConfidenceDisclaimer == "DISCLAIMER_low_confidence"

get_emergency_response == <<"DISCLAIMER_emergency", "EMERGENCY_BODY">>

format_response(raw_response, confidence) ==
    IF FracLess(confidence, Half)
    THEN <<LowConfidenceDisclaimer>> \o raw_response
    ELSE raw_response

----------------------------------------------------------------------------
(* Inputs *)

Queries ==
    { <<"q">>,
      <<" ", "Q", " ">>,
      <<"c", "h", "e", "s", "t", " ", "p", "a", "i", "n">> }

\* Further query texts for the cache manager called on its own.
KeyQueries == Queries \cup { <<"Q">>, <<"a", ":", "b">>, <<"a">> }

Sessions == { <<"c">>, <<"b", ":", "c">> }

\* The chunks held by the external index (scores in hundredths).
Chunks ==
    { [id |-> "d1#0", source_url |-> "u1", title |-> "T1", score |-> 90],
      [id |-> "d1#1", source_url |-> "u1", title |-> "T1", score |-> 70],
      [id |-> "d2#0", source_url |-> "u2", title |-> "T2", score |-> 40] }

\* What index.query may return: at most MaxMatches distinct chunks, best first.
IndexResults ==
    { m \in UNION { [1..n -> Chunks] : n \in 0..MaxMatches } :
        /\ \A i, j \in 1..Len(m) : i # j => m[i] # m[j]
        /\ \A i, j \in 1..Len(m) : i < j => m[i].score >= m[j].score }

Tasks == 1..MaxTasks

\* A text of n characters.
TextOfLength(n) == [i \in 1..n |-> "a"]

\* Query texts at the length bound of ChatRequest: a short one, one of
\* exactly max_length characters and one of max_length + 1.
EntryQueries ==
    { <<"q">>, TextOfLength(max_length), TextOfLength(max_length + 1) }

EntrySessions == { <<"c">> }

\* The query texts that reach the cache manager (the voice route strips the
\* transcription).
RequestQueries ==
    KeyQueries \cup { Strip(q) : q \in KeyQueries } \cup EntryQueries

\* _generate_key and detect_emergency_keywords are pure: their values on the
\* inputs of the model are tabulated once.
KeyMemo ==
    { <<a, _generate_key(a[1], a[2])>> : a \in RequestQueries \X Sessions }

Key(query, session_id) ==
    (CHOOSE p \in KeyMemo : p[1] = <<query, session_id>>)[2]

EmergencyMemo == { q \in RequestQueries : detect_emergency_keywords(q) }

IsEmergency(query) == query \in EmergencyMemo

----------------------------------------------------------------------------
(* services/llm.py and services/rag.py *)

LlmText == <<"LLM_TEXT">>

ApologyText == <<"APOLOGY_TEXT">>

NoMatchText == <<"NO_MATCH_TEXT">>

RECURSIVE SumScores(_)
SumScores(chunks) ==
    IF chunks = <<>> THEN 0 ELSE Head(chunks).score + SumScores(Tail(chunks))

\* The average replaced by the score of the first (best) chunk.
AvgScore_Best(chunks) == Frac(Head(chunks).score, 100)

\* sum(chunk['score'] ...) / len(context_chunks), scores in hundredths
AvgScore(chunks) == Frac(SumScores(chunks), 100 * Len(chunks))

\* Whether generate_response reaches client.chat.completions.create.
LlmInvoked(query) == ~IsEmergency(query)

\* llmOk: client.chat.completions.create returns; otherwise it raises.  An
\* empty context_chunks makes the average raise ZeroDivisionError, inside the
\* same try block.
generate_response(query, context_chunks, llmOk) ==
    IF IsEmergency(query)
    THEN [response |-> get_emergency_response,
          confidence |-> One,
          emergency |-> TRUE]
    ELSE IF llmOk /\ context_chunks # <<>>
         THEN LET confidence == FracMin(AvgScore(context_chunks), One)
              IN [response |-> format_response(LlmText, confidence),
                  raw_response |-> LlmText,
                  confidence |-> confidence,
                  emergency |-> FALSE]
         ELSE [response |-> ApologyText,
               confidence |-> Zero,
               emergency |-> FALSE,
               error |-> "llm"]

\* generate_response without its try/except: a failing call raises.
GenerateResult_Propagates(query, context_chunks, llmOk) ==
    IF ~IsEmergency(query) /\ ~(llmOk /\ context_chunks # <<>>)
    THEN [raised |-> TRUE, value |-> None]
    ELSE [raised |-> FALSE,
          value |-> Some(generate_response(query, context_chunks, llmOk))]

\* What a call of generate_response gives its caller: the dict it returns,
\* and whether an exception leaves it.
GenerateResult(query, context_chunks, llmOk) ==
    [raised |-> FALSE,
     value |-> Some(generate_response(query, context_chunks, llmOk))]

RECURSIVE ExtractFrom(_, _)
ExtractFrom(matches, seen_urls) ==
    IF matches = <<>> THEN <<>>
    ELSE LET match == Head(matches)
         IN IF match.source_url \notin seen_urls
            THEN <<[url |-> match.source_url,
                    title |-> match.title,
                    relevance_score |-> Frac(match.score, 100)]>>
                 \o ExtractFrom(Tail(matches), seen_urls \cup {match.source_url})
            ELSE ExtractFrom(Tail(matches), seen_urls)

\* The sources without the seen_urls test: one Source for each match.
_extract_sources_AllMatches(matches) ==
    [i \in 1..Len(matches) |->
        [url |-> matches[i].source_url,
         title |-> matches[i].title,
         relevance_score |-> Frac(matches[i].score, 100)]]

_extract_sources(matches) == ExtractFrom(matches, {})

\* RAGPipeline.query without its "if not matches" return: the synthesizer is
\* called on whatever the search returned.
RagResult_NoEarlyReturn(user_query, matches, llmOk) ==
    LET llm_result == generate_response(user_query, matches, llmOk)
    IN [response |-> llm_result.response,
        sources |-> _extract_sources(matches),
        confidence |-> llm_result.confidence,
        emergency |-> llm_result.emergency]

\* RAGPipeline.query once vector_db.search has returned matches.
RagResult(user_query, matches, llmOk) ==
    IF matches = <<>>
    THEN [response |-> NoMatchText, sources |-> <<>>, confidence |-> Zero]
    ELSE LET llm_result == generate_response(user_query, matches, llmOk)
         IN [response |-> llm_result.response,
             sources |-> _extract_sources(matches),
             confidence |-> llm_result.confidence,
             emergency |-> llm_result.emergency]

\* Whether RAGPipeline.query reaches the generation-model call.
RagGenerates(user_query, matches) == matches # <<>> /\ LlmInvoked(user_query)


----------------------------------------------------------------------------
(* State *)

\* record is the history document query_repo.save_query inserted for the
\* request, None as long as there is none; temp_file tells whether the file
\* at temp_audio_path exists; status is the status code of the response or of
\* the HTTPException under way, 0 as long as there is none.
IdleTask ==
    [pc |-> "idle", route |-> "none", query |-> <<>>, session |-> <<>>,
     searched |-> FALSE, noMatch |-> FALSE, generated |-> FALSE,
     cacheFailed |-> FALSE, err |-> "", local |-> None, answer |-> None,
     record |-> None, temp_file |-> FALSE, status |-> 0]

\* The document the routes hand to QueryRepository.save_query.
QueryDocument(r) ==
    [session_id |-> r.session, user_query |-> r.query,
     response |-> r.local[1].response, cached |-> r.local[1].is_cached]

NewTask(route, query, session_id) ==
    [IdleTask EXCEPT !.pc = "cache_get", !.route = route,
                     !.query = query, !.session = session_id]

\* models/schemas.py ChatResponse, built from the locals of a route
ChatResponse(local, transcribed_query, audio_url) ==
    [response |-> local.response,
     sources |-> local.sources,
     confidence |-> local.confidence,
     cached |-> local.is_cached,
     transcribed_query |-> transcribed_query,
     audio_url |-> audio_url]

cache_data(local) ==
    [response |-> local.response,
     sources |-> local.sources,
     confidence |-> local.confidence]

\* voice_service.text_to_speech: the URL of the audio written for the session
AudioUrl(session_id) == <<"/static/audio/", session_id, ".mp3">>

Init ==
    /\ store = <<>>
    /\ task = [t \in Tasks |-> IdleTask]
    /\ started = 0
    /\ purge = None
    /\ arg = None
    /\ res = None

----------------------------------------------------------------------------
(* Redis *)

\* GET key on the store db
RedisGet(db, key) == IF key \in DOMAIN db THEN Some(db[key].val) ELSE None

\* SETEX key ttl value
RedisSetex(db, key, ttl, value) ==
    [k \in DOMAIN db \cup {key} |->
        IF k = key THEN [val |-> value, ttl |-> ttl] ELSE db[k]]

\* KEYS pattern
RedisKeys(db, pattern) == { k \in DOMAIN db : GlobMatch(pattern, k) }

\* DEL keys
RedisDelete(db, keys) == [k \in DOMAIN db \ keys |-> db[k]]

\* What CacheManager.get reads from a store db that answers.
CacheLookup(db, query, session_id) ==
    LET cached == RedisGet(db, Key(query, session_id))
    IN IF cached # None THEN Some(JsonLoads(cached[1])) ELSE None

\* CacheManager.get without its try/except: a failing store raises.
CacheGetResult_Raises(query, session_id, ok) ==
    IF ~ok THEN [raised |-> TRUE, value |-> None]
    ELSE [raised |-> FALSE, value |-> CacheLookup(store, query, session_id)]

\* CacheManager.get with a store that answers (ok) or fails: what it returns
\* and whether an exception leaves it.
CacheGetResult(query, session_id, ok) ==
    IF ~ok THEN [raised |-> FALSE, value |-> None]
    ELSE [raised |-> FALSE, value |-> CacheLookup(store, query, session_id)]

\* CacheManager.set writing only when the key is absent (SET NX).
CacheSetResult_KeepFirst(query, response, session_id, ok) ==
    IF ok
    THEN [raised |-> FALSE, value |-> TRUE,
          store |-> IF Key(query, session_id) \in DOMAIN store THEN store
                    ELSE RedisSetex(store, Key(query, session_id), CACHE_TTL,
                                    JsonDumps(response, CacheFields))]
    ELSE [raised |-> FALSE, value |-> FALSE, store |-> store]

\* CacheManager.set deriving its key without the session.
CacheSetResult_NoSession(query, response, session_id, ok) ==
    IF ok
    THEN [raised |-> FALSE, value |-> TRUE,
          store |-> RedisSetex(store, _generate_key(query, <<>>), CACHE_TTL,
                               JsonDumps(response, CacheFields))]
    ELSE [raised |-> FALSE, value |-> FALSE, store |-> store]

\* CacheManager.set: the store it leaves, what it returns and whether an
\* exception leaves it.
CacheSetResult(query, response, session_id, ok) ==
    IF ok
    THEN [raised |-> FALSE, value |-> TRUE,
          store |-> RedisSetex(store, Key(query, session_id), CACHE_TTL,
                               JsonDumps(response, CacheFields))]
    ELSE [raised |-> FALSE, value |-> FALSE, store |-> store]

\* CacheManager.clear_session: the store it leaves and what it returns.
ClearSessionResult(session_id, ok) ==
    IF ok
    THEN LET keys == RedisKeys(store, ClearPattern(session_id))
         IN [value |-> TRUE,
             store |-> IF keys # {} THEN RedisDelete(store, keys) ELSE store]
    ELSE [value |-> FALSE, store |-> store]

----------------------------------------------------------------------------
(* Requests: chat_text and chat_voice *)

\* A new request takes the lowest idle task.
CanStart(t) ==
    /\ task[t].pc = "idle"
    /\ \A u \in 1..(t - 1) : task[u].pc # "idle"
    /\ started < MaxRequests

\* The request body fails the validation of ChatRequest: FastAPI answers 422
\* and the route function is not called.
Rejected(route, query, session_id) ==
    [IdleTask EXCEPT !.pc = "rejected", !.route = route, !.query = query,
                     !.session = session_id, !.err = "validation",
                     !.status = 422]

\* A text request arrives (ChatRequest is validated, then chat_text runs up to
\* the cache read).
StartText(t, q, s) ==
    /\ CanStart(t)
    /\ task' = [task EXCEPT ![t] =
                   IF Len(q) > max_length THEN Rejected("text", q, s)
                   ELSE NewTask("text", q, s)]
    /\ started' = started + 1
    /\ UNCHANGED <<store, purge, arg, res>>

\* A voice request arrives and is transcribed (chat_voice up to the cache
\* read); q is the text the speech recogniser heard.
StartVoice(t, q, s) ==
    /\ CanStart(t)
    /\ task' = [task EXCEPT ![t] =
                   [NewTask("voice", Strip(q), s) EXCEPT !.temp_file = TRUE]]
    /\ started' = started + 1
    /\ UNCHANGED <<store, purge, arg, res>>

\* A cache hit that leaves the cached flag unset.
HitLocal_Uncached(cached_response) ==
    [response |-> cached_response.response,
     sources |-> cached_response.sources,
     confidence |-> cached_response.confidence,
     is_cached |-> FALSE]

\* The locals of the route after a cache hit.
HitLocal(cached_response) ==
    [response |-> cached_response.response,
     sources |-> cached_response.sources,
     confidence |-> cached_response.confidence,
     is_cached |-> TRUE]

\* The locals of the route after rag_pipeline.query returned.
MissLocal(rag_result) ==
    [response |-> rag_result.response,
     sources |-> rag_result.sources,
     confidence |-> rag_result.confidence,
     is_cached |-> FALSE]

\* The except block of chat_voice without the finally block after it.
Failed_KeepsFile(r, cause) ==
    [r EXCEPT !.pc = "error", !.err = cause, !.status = 500]

\* The route's except block, which turns every exception into an
\* HTTPException with status 500, and the finally block of chat_voice, which
\* removes the temporary audio file.
Failed(r, cause) ==
    [r EXCEPT !.pc = "error", !.err = cause, !.status = 500,
              !.temp_file = FALSE]

\* The voice route with its cache write outside the else branch: a hit goes
\* on to cache_manager.set.
AfterHit_WritesBack(r, cached_response, ttsOk) ==
    LET hit == [r EXCEPT !.local = Some(HitLocal(cached_response))]
    IN IF r.route = "text"
       THEN [hit EXCEPT !.pc = "done", !.status = 200, !.temp_file = FALSE,
                        !.answer = Some(ChatResponse(HitLocal(cached_response),
                                                     None, None))]
       ELSE [hit EXCEPT !.pc = "cache_set"]

\* The route after cache_manager.get returned a cached response.
AfterHit(r, cached_response, ttsOk) ==
    LET hit == [r EXCEPT !.local = Some(HitLocal(cached_response))]
    IN IF r.route = "text"
       THEN [hit EXCEPT !.pc = "done", !.status = 200, !.temp_file = FALSE,
                        !.answer = Some(ChatResponse(HitLocal(cached_response),
                                                     None, None))]
       ELSE IF ttsOk THEN [hit EXCEPT !.pc = "save"] ELSE Failed(hit, "tts")

\* The route after cache_manager.get returned None: rag_pipeline.query runs,
\* and its calls are all synchronous, so embedding, vector search and
\* generation are over before the task next suspends.
AfterMiss(r, raised, matches, llmOk) ==
    CASE raised = "embed" -> Failed(r, "embed")
      [] raised = "search" -> Failed([r EXCEPT !.searched = TRUE], "search")
      [] OTHER ->
           [r EXCEPT !.pc = IF r.route = "text" THEN "save" ELSE "cache_set",
                     !.searched = TRUE,
                     !.noMatch = (matches = <<>>),
                     !.generated = RagGenerates(r.query, matches),
                     !.local = Some(MissLocal(RagResult(r.query, matches, llmOk)))]

\* The cache read returns a live entry.
CacheHit(t, ok, ttsOk) ==
    LET r == task[t]
        got == CacheGetResult(r.query, r.session, ok)
    IN /\ r.pc = "cache_get"
       /\ ~got.raised
       /\ got.value # None
       /\ task' = [task EXCEPT ![t] = AfterHit(r, got.value[1], ttsOk)]
       /\ UNCHANGED <<store, started, purge, arg, res>>

\* The cache read returns no entry: the key is absent or the store failed.
\* An exception leaving cache_manager.get would reach the route's except block.
CacheMiss(t, ok, raised, matches, llmOk) ==
    LET r == [task[t] EXCEPT !.cacheFailed = ~ok]
        got == CacheGetResult(r.query, r.session, ok)
    IN /\ r.pc = "cache_get"
       /\ got.raised \/ got.value = None
       /\ task' = [task EXCEPT ![t] =
                      IF got.raised THEN Failed(r, "cache_get")
                      ELSE AfterMiss(r, raised, matches, llmOk)]
       /\ UNCHANGED <<store, started, purge, arg, res>>

\* save_query with its failure logged and swallowed: the route goes on
\* without a history record.
SaveQuery_Swallows(t, ok) ==
    LET r == task[t]
        doc == IF ok THEN Some(QueryDocument(r)) ELSE None
    IN /\ r.pc = "save"
       /\ task' = [task EXCEPT ![t] =
            IF r.route = "text"
            THEN [r EXCEPT !.pc = "cache_set", !.record = doc]
            ELSE [r EXCEPT !.pc = "done", !.status = 200, !.temp_file = FALSE,
                           !.record = doc,
                           !.answer = Some(ChatResponse(r.local[1],
                                           Some(r.query),
                                           Some(AudioUrl(r.session))))]]
       /\ UNCHANGED <<store, started, purge, arg, res>>

\* query_repo.save_query inserts the history document or raises.
SaveQuery(t, ok) ==
    LET r == task[t]
    IN /\ r.pc = "save"
       /\ task' = [task EXCEPT ![t] =
            IF ~ok THEN Failed(r, "save")
            ELSE IF r.route = "text"
                 THEN [r EXCEPT !.pc = "cache_set",
                                !.record = Some(QueryDocument(r))]
                 ELSE [r EXCEPT !.pc = "done", !.status = 200, !.temp_file = FALSE,
                                !.record = Some(QueryDocument(r)),
                                !.answer = Some(ChatResponse(r.local[1],
                                                Some(r.query),
                                                Some(AudioUrl(r.session))))]]
       /\ UNCHANGED <<store, started, purge, arg, res>>

\* cache_manager.set completes; the text route then returns its response, the
\* voice route goes on to synthesise speech.
CacheSet(t, ok, ttsOk) ==
    LET r == [task[t] EXCEPT !.cacheFailed = @ \/ ~ok]
        put == CacheSetResult(r.query, cache_data(r.local[1]), r.session, ok)
    IN /\ r.pc = "cache_set"
       /\ store' = put.store
       /\ task' = [task EXCEPT ![t] =
            IF put.raised THEN Failed(r, "cache_set")
            ELSE IF r.route = "text"
                 THEN [r EXCEPT !.pc = "done", !.status = 200, !.temp_file = FALSE,
                                !.answer = Some(ChatResponse(r.local[1], None, None))]
                 ELSE IF ttsOk THEN [r EXCEPT !.pc = "save"] ELSE Failed(r, "tts")]
       /\ UNCHANGED <<started, purge, arg, res>>

\* The response (or the error) has been delivered to the caller.
Finish(t) ==
    /\ task[t].pc \in {"done", "error", "rejected"}
    /\ task' = [task EXCEPT ![t] = IdleTask]
    /\ UNCHANGED <<store, started, purge, arg, res>>

\* TickStep seconds pass; Redis drops the entries whose time to live is over.
Tick ==
    /\ DOMAIN store # {}
    /\ store' = [k \in { j \in DOMAIN store : store[j].ttl > TickStep } |->
                    [store[k] EXCEPT !.ttl = @ - TickStep]]
    /\ UNCHANGED <<task, started, purge, arg, res>>

Next ==
    \/ \E t \in Tasks, q \in Queries, s \in Sessions : StartText(t, q, s)
    \/ \E t \in Tasks, q \in Queries, s \in Sessions : StartVoice(t, q, s)
    \/ \E t \in Tasks, ok \in BOOLEAN, ttsOk \in BOOLEAN : CacheHit(t, ok, ttsOk)
    \/ \E t \in Tasks, ok \in BOOLEAN, raised \in {"none", "embed", "search"},
          matches \in IndexResults, llmOk \in BOOLEAN :
            CacheMiss(t, ok, raised, matches, llmOk)
    \/ \E t \in Tasks, ok \in BOOLEAN : SaveQuery(t, ok)
    \/ \E t \in Tasks, ok \in BOOLEAN, ttsOk \in BOOLEAN : CacheSet(t, ok, ttsOk)
    \/ \E t \in Tasks : Finish(t)
    \/ Tick

Spec == Init /\ [][Next]_vars

----------------------------------------------------------------------------
(* The two routes fed with query texts at the length bound *)

NextEntry ==
    \/ \E t \in Tasks, q \in EntryQueries, s \in EntrySessions : StartText(t, q, s)
    \/ \E t \in Tasks, q \in EntryQueries, s \in EntrySessions : StartVoice(t, q, s)
    \/ \E t \in Tasks, ok \in BOOLEAN, ttsOk \in BOOLEAN : CacheHit(t, ok, ttsOk)
    \/ \E t \in Tasks, ok \in BOOLEAN, raised \in {"none", "embed", "search"},
          matches \in IndexResults, llmOk \in BOOLEAN :
            CacheMiss(t, ok, raised, matches, llmOk)
    \/ \E t \in Tasks, ok \in BOOLEAN : SaveQuery(t, ok)
    \/ \E t \in Tasks, ok \in BOOLEAN, ttsOk \in BOOLEAN : CacheSet(t, ok, ttsOk)
    \/ \E t \in Tasks : Finish(t)
    \/ Tick

SpecEntry == Init /\ [][NextEntry]_vars

----------------------------------------------------------------------------
(* The cache manager called on its own, as tests/test_cache.py calls it *)

CacheValues ==
    { [response |-> LlmText,
       sources |-> _extract_sources(<<c>>),
       confidence |-> Frac(c.score, 100)] : c \in Chunks }

\* cache_manager.set(q, response, s)
ApiSet(q, s, response, ok) ==
    /\ started < MaxCacheOps
    /\ started' = started + 1
    /\ store' = CacheSetResult(q, response, s, ok).store
    /\ UNCHANGED <<task, purge, arg, res>>

\* cache_manager.clear_session(s); purge holds what the last call returned.
ClearSession(s, ok) ==
    /\ started < MaxCacheOps
    /\ started' = started + 1
    /\ store' = ClearSessionResult(s, ok).store
    /\ purge' = Some([session |-> s, value |-> ClearSessionResult(s, ok).value])
    /\ UNCHANGED <<task, arg, res>>

NextCache ==
    \/ \E q \in KeyQueries, s \in Sessions, v \in CacheValues, ok \in BOOLEAN :
          ApiSet(q, s, v, ok)
    \/ \E s \in Sessions, ok \in BOOLEAN : ClearSession(s, ok)
    \/ Tick

SpecCache == Init /\ [][NextCache]_vars

----------------------------------------------------------------------------
(* _generate_key applied to two (query, session) pairs *)

KeyArgs == (KeyQueries \X Sessions) \X (KeyQueries \X Sessions)

InitKey ==
    /\ store = <<>>
    /\ task = [t \in Tasks |-> IdleTask]
    /\ started = 0
    /\ purge = None
    /\ arg \in { Some(a) : a \in KeyArgs }
    /\ res = None

GenerateKeys ==
    /\ res = None
    /\ res' = Some(<<_generate_key(arg[1][1][1], arg[1][1][2]),
                     _generate_key(arg[1][2][1], arg[1][2][2])>>)
    /\ UNCHANGED <<store, task, started, purge, arg>>

NextKey == GenerateKeys

SpecKey == InitKey /\ [][NextKey]_vars

----------------------------------------------------------------------------
(* detect_emergency_keywords applied to two query texts, as                *)
(* tests/test_persona.py applies it                                        *)

PersonaQueries ==
    {
      <<"c", "h", "e", "s", "t", " ", "p", "a", "i", "n">>,
      <<"C", "H", "E", "S", "T", " ", "P", "A", "I", "N">>,
      <<"C", "h", "e", "s", "t", " ", "P", "a", "i", "n">>,
      <<"a", " ", "S", "t", "r", "o", "k", "e", "!">>,
      <<"s", "t", "r", "o", "k", " ", "e">>,
      <<"q">>,
      <<"Q">>,
      <<"D", "Y", "I", "N", "G">>,
      <<"d", "i", "e">>,
      <<"E", "m", "e", "r", "g", "e", "n", "c", "y">>,
      <<"e", "m", "e", "r", "g", "e", "n", "c">>,
      <<"C", "a", "n", "'", "t", " ", "b", "r", "e", "a", "t", "h", "e">>,
      <<>> }

InitPersona ==
    /\ store = <<>>
    /\ task = [t \in Tasks |-> IdleTask]
    /\ started = 0
    /\ purge = None
    /\ arg \in { Some(a) : a \in PersonaQueries \X PersonaQueries }
    /\ res = None

DetectEmergency ==
    /\ res = None
    /\ res' = Some(<<detect_emergency_keywords(arg[1][1]),
                     detect_emergency_keywords(arg[1][2])>>)
    /\ UNCHANGED <<store, task, started, purge, arg>>

NextPersona == DetectEmergency

SpecPersona == InitPersona /\ [][NextPersona]_vars

----------------------------------------------------------------------------
(* _extract_sources applied to a list of matches *)

\* The chunks a list of matches may hold: two origins, two chunks of each,
\* two of them with equal scores.
AnyChunks ==
    Chunks \cup
        { [id |-> "d2#1", source_url |-> "u2", title |-> "T2", score |-> 90] }

ChunkLists == UNION { [1..n -> AnyChunks] : n \in 0..MaxChunks }

InitSources ==
    /\ store = <<>>
    /\ task = [t \in Tasks |-> IdleTask]
    /\ started = 0
    /\ purge = None
    /\ arg \in { Some(m) : m \in ChunkLists }
    /\ res = None

ExtractSources ==
    /\ res = None
    /\ res' = Some(_extract_sources(arg[1]))
    /\ UNCHANGED <<store, task, started, purge, arg>>

NextSources == ExtractSources

SpecSources == InitSources /\ [][NextSources]_vars

----------------------------------------------------------------------------
(* services/rag.py and services/vector_store.py: top_k and the search *)

\* A Python value given as top_k: an int n, a float n/d, a str s or None.
PyInt(n) == [type |-> "int", n |-> n, d |-> 1, s |-> <<>>]

PyFloat(n, d) == [type |-> "float", n |-> n, d |-> d, s |-> <<>>]

PyStr(s) == [type |-> "str", n |-> 0, d |-> 1, s |-> s]

PyNone == [type |-> "NoneType", n |-> 0, d |-> 1, s |-> <<>>]

\* The truth value of x in "if top_k".
Truthy(x) ==
    CASE x.type = "NoneType" -> FALSE
      [] x.type = "str" -> x.s # <<>>
      [] OTHER -> x.n # 0

DigitChars == {"0", "1", "2", "3", "4", "5", "6", "7", "8", "9"}

RECURSIVE DigitsValue(_)
DigitsValue(digits) ==
    IF digits = <<>> THEN 0
    ELSE 10 * DigitsValue(SubSeq(digits, 1, Len(digits) - 1))
            + (CharCode(digits[Len(digits)]) - 48)

\* int(s) for a str without underscores: surrounding whitespace is dropped,
\* a sign may lead, decimal digits must follow; anything else is a ValueError.
IntOfStr(s) ==
    LET t == Strip(s)
        signed == t # <<>> /\ Head(t) \in {"+", "-"}
        digits == IF signed THEN Tail(t) ELSE t
        valid == digits # <<>> /\ \A i \in 1..Len(digits) : digits[i] \in DigitChars
    IN IF ~valid THEN [raised |-> TRUE, v |-> 0]
       ELSE [raised |-> FALSE,
             v |-> IF signed /\ Head(t) = "-"
                   THEN 0 - DigitsValue(digits) ELSE DigitsValue(digits)]

\* int(x): a float is truncated towards zero, None is a TypeError.
IntOf(x) ==
    CASE x.type = "int" -> [raised |-> FALSE, v |-> x.n]
      [] x.type = "float" ->
           [raised |-> FALSE,
            v |-> IF x.n >= 0 THEN x.n \div x.d ELSE 0 - ((0 - x.n) \div x.d)]
      [] x.type = "str" -> IntOfStr(x.s)
      [] OTHER -> [raised |-> TRUE, v |-> 0]

\* RAGPipeline.query: top_k = int(top_k) if top_k else 3
rag_top_k(top_k) ==
    IF Truthy(top_k) THEN IntOf(top_k) ELSE [raised |-> FALSE, v |-> DefaultTopK]

\* VectorDatabase.search: top_k = top_k or settings.TOP_K_RESULTS
search_top_k(top_k) == IF top_k # 0 THEN top_k ELSE TOP_K_RESULTS

\* A match as index.query returns it.
IndexMatch(c) ==
    [id |-> c.id, score |-> c.score,
     metadata |-> [source_url |-> c.source_url, title |-> c.title]]

\* index.query(top_k = k) on an index that ranks its chunks best first for
\* the query vector (metric "cosine"): the k best matches.  The index
\* rejects a top_k below 1.
IndexQuery(ranking, k) ==
    IF k < 1 THEN [raised |-> TRUE, matches |-> <<>>]
    ELSE [raised |-> FALSE,
          matches |-> [i \in 1..(IF k < Len(ranking) THEN k ELSE Len(ranking)) |->
                          IndexMatch(ranking[i])]]

\* The search returning the matches last first.
search_Reversed(results) ==
    [i \in 1..Len(results) |->
        [id |-> results[Len(results) + 1 - i].id,
         score |-> results[Len(results) + 1 - i].score,
         source_url |-> results[Len(results) + 1 - i].metadata.source_url,
         title |-> results[Len(results) + 1 - i].metadata.title]]

\* VectorDatabase.search: the matches formatted from results['matches'].
search(results) ==
    [i \in 1..Len(results) |->
        [id |-> results[i].id,
         score |-> results[i].score,
         source_url |-> results[i].metadata.source_url,
         title |-> results[i].metadata.title]]

TopKInputs ==
    { PyInt(n) : n \in {0 - 3, 0 - 1, 0, 1, 2, QueryTopK} }
    \cup { PyNone }
    \cup { PyFloat(0, 1), PyFloat(1, 2), PyFloat(5, 2), PyFloat(0 - 3, 2) }
    \cup { PyStr(<<>>), PyStr(<<"5">>), PyStr(<<" ", "2", " ">>),
           PyStr(<<"-", "2">>), PyStr(<<"0">>), PyStr(<<"a", "b", "c">>),
           PyStr(<<"2", ".", "5">>) }

\* The chunks of the index ranked for a query vector: best first, no chunk
\* twice.
Rankings ==
    { m \in ChunkLists :
        /\ \A i, j \in 1..Len(m) : i # j => m[i] # m[j]
        /\ \A i, j \in 1..Len(m) : i < j => m[i].score >= m[j].score }

InitSearch ==
    /\ store = <<>>
    /\ task = [t \in Tasks |-> IdleTask]
    /\ started = 0
    /\ purge = None
    /\ arg \in { Some([top_k |-> k, ranking |-> m]) :
                    k \in TopKInputs, m \in Rankings }
    /\ res = None

\* RAGPipeline.query up to the call of vector_db.search.
CoerceTopK ==
    /\ res = None
    /\ res' = Some([stage |-> "rag",
                    raised |-> rag_top_k(arg[1].top_k).raised,
                    top_k |-> rag_top_k(arg[1].top_k).v,
                    matches |-> <<>>])
    /\ UNCHANGED <<store, task, started, purge, arg>>

\* VectorDatabase.search called with the top_k RAGPipeline.query passes.
VectorSearch ==
    /\ res # None
    /\ res[1].stage = "rag"
    /\ ~res[1].raised
    /\ LET k == search_top_k(res[1].top_k)
           results == IndexQuery(arg[1].ranking, k)
       IN res' = Some([stage |-> "searched",
                       raised |-> results.raised,
                       top_k |-> k,
                       matches |-> search(results.matches)])
    /\ UNCHANGED <<store, task, started, purge, arg>>

NextSearch == CoerceTopK \/ VectorSearch

SpecSearch == InitSearch /\ [][NextSearch]_vars

----------------------------------------------------------------------------
(* llm_service.generate_response called on its own, as tests/test_llm.py   *)
(* calls it                                                                *)

InitLlm ==
    /\ store = <<>>
    /\ task = [t \in Tasks |-> IdleTask]
    /\ started = 0
    /\ purge = None
    /\ arg \in { Some([query |-> q, context_chunks |-> m, llmOk |-> ok]) :
                    q \in RequestQueries, m \in ChunkLists, ok \in BOOLEAN }
    /\ res = None

GenerateResponse ==
    /\ res = None
    /\ res' = Some(GenerateResult(arg[1].query, arg[1].context_chunks,
                                  arg[1].llmOk))
    /\ UNCHANGED <<store, task, started, purge, arg>>

NextLlm == GenerateResponse

SpecLlm == InitLlm /\ [][NextLlm]_vars

----------------------------------------------------------------------------
(* Concurrent requests on the one event loop of the server, every          *)
(* dependency answering                                                    *)

ConcTasks == 1..MaxConcurrent

\* Two spellings of one normalized query text, asked in one session.
ConcQueries == { <<"q">>, <<" ", "Q", " ">> }

ConcSessions == { <<"c">> }

ConcResults == { m \in IndexResults : Len(m) <= 1 }

InitConc ==
    /\ store = <<>>
    /\ task = [t \in ConcTasks |-> IdleTask]
    /\ started = 0
    /\ purge = None
    /\ arg = None
    /\ res = None

\* No task is inside rag_pipeline.query.  The coroutine has no await: the
\* embedding, the vector search and the generation call are synchronous
\* calls, and the event loop runs nothing else until they have returned.
LoopFree == \A u \in DOMAIN task : task[u].pc # "rag"

\* cache_manager.get returned None: the route calls rag_pipeline.query.
EnterPipeline(t) ==
    LET r == task[t]
    IN /\ LoopFree
       /\ r.pc = "cache_get"
       /\ CacheGetResult(r.query, r.session, TRUE).value = None
       /\ task' = [task EXCEPT ![t] = [r EXCEPT !.pc = "rag"]]
       /\ UNCHANGED <<store, started, purge, arg, res>>

\* rag_pipeline.query returns.
RunPipeline(t, matches, llmOk) ==
    /\ task[t].pc = "rag"
    /\ task' = [task EXCEPT ![t] = AfterMiss(task[t], "none", matches, llmOk)]
    /\ UNCHANGED <<store, started, purge, arg, res>>

\* The steps of task t that the event loop can run.
ConcStep(t) ==
    \/ \E q \in ConcQueries, s \in ConcSessions : LoopFree /\ StartText(t, q, s)
    \/ \E q \in ConcQueries, s \in ConcSessions : LoopFree /\ StartVoice(t, q, s)
    \/ LoopFree /\ CacheHit(t, TRUE, TRUE)
    \/ EnterPipeline(t)
    \/ \E matches \in ConcResults, llmOk \in BOOLEAN : RunPipeline(t, matches, llmOk)
    \/ LoopFree /\ SaveQuery(t, TRUE)
    \/ LoopFree /\ CacheSet(t, TRUE, TRUE)

NextConc == \E t \in ConcTasks : ConcStep(t)

SpecConc == InitConc /\ [][NextConc]_vars

----------------------------------------------------------------------------
(* Requests of several sessions sharing the cache, every dependency        *)
(* answering                                                               *)

SessionQueries == { <<"a", ":", "b">>, <<"a">> }

SessionStep(t) ==
    \/ \E q \in SessionQueries, s \in Sessions : LoopFree /\ StartText(t, q, s)
    \/ \E q \in SessionQueries, s \in Sessions : LoopFree /\ StartVoice(t, q, s)
    \/ LoopFree /\ CacheHit(t, TRUE, TRUE)
    \/ EnterPipeline(t)
    \/ \E matches \in ConcResults, llmOk \in BOOLEAN : RunPipeline(t, matches, llmOk)
    \/ LoopFree /\ SaveQuery(t, TRUE)
    \/ LoopFree /\ CacheSet(t, TRUE, TRUE)

NextSessions == \E t \in ConcTasks : SessionStep(t)

SpecSessions == InitConc /\ [][NextSessions]_vars

----------------------------------------------------------------------------
(* Text requests of several sessions with their history records, every     *)
(* dependency free to fail                                                 *)

NextHistory ==
    \/ \E t \in ConcTasks, q \in ConcQueries, s \in Sessions : StartText(t, q, s)
    \/ \E t \in ConcTasks, ok \in BOOLEAN : CacheHit(t, ok, TRUE)
    \/ \E t \in ConcTasks, ok \in BOOLEAN, raised \in {"none", "embed", "search"},
          matches \in ConcResults, llmOk \in BOOLEAN :
            CacheMiss(t, ok, raised, matches, llmOk)
    \/ \E t \in ConcTasks, ok \in BOOLEAN : SaveQuery(t, ok)
    \/ \E t \in ConcTasks, ok \in BOOLEAN : CacheSet(t, ok, TRUE)

SpecHistory == InitConc /\ [][NextHistory]_vars

----------------------------------------------------------------------------
(* The voice route from the upload on, every dependency free to fail       *)

AudioPrefix == <<"a", "u", "d", "i", "o", "/">>

\* The content types of the uploaded file.
ContentTypes ==
    { <<"a", "u", "d", "i", "o", "/", "w", "a", "v">>,
      <<"t", "e", "x", "t", "/", "p", "l", "a", "i", "n">>,
      <<"a", "u", "d", "i", "o">> }

\* chat_voice from its entry to the cache read: the content type is checked,
\* the upload is written to the temporary file (written tells whether that
\* succeeds) and transcribed (heard tells whether that succeeds, q is the
\* text heard).  The HTTPException with status 400 is raised inside the try
\* block, so it reaches the except block like any other exception.
UploadVoice(t, content_type, q, s, written, heard) ==
    LET r == NewTask("voice", <<>>, s)
        saved == [r EXCEPT !.temp_file = TRUE]
    IN /\ CanStart(t)
       /\ task' = [task EXCEPT ![t] =
            IF ~StartsWith(content_type, AudioPrefix)
            THEN Failed([r EXCEPT !.status = 400], "content_type")
            ELSE IF ~written THEN Failed(saved, "upload")
            ELSE IF ~heard THEN Failed(saved, "transcribe")
            ELSE [saved EXCEPT !.query = Strip(q)]]
       /\ started' = started + 1
       /\ UNCHANGED <<store, purge, arg, res>>

NextVoice ==
    \/ \E t \in Tasks, c \in ContentTypes, q \in ConcQueries, s \in ConcSessions,
          written \in BOOLEAN, heard \in BOOLEAN :
            UploadVoice(t, c, q, s, written, heard)
    \/ \E t \in Tasks, ok \in BOOLEAN, ttsOk \in BOOLEAN : CacheHit(t, ok, ttsOk)
    \/ \E t \in Tasks, ok \in BOOLEAN, raised \in {"none", "embed", "search"},
          matches \in IndexResults, llmOk \in BOOLEAN :
            CacheMiss(t, ok, raised, matches, llmOk)
    \/ \E t \in Tasks, ok \in BOOLEAN : SaveQuery(t, ok)
    \/ \E t \in Tasks, ok \in BOOLEAN, ttsOk \in BOOLEAN : CacheSet(t, ok, ttsOk)
    \/ \E t \in Tasks : Finish(t)
    \/ Tick

SpecVoice == Init /\ [][NextVoice]_vars

----------------------------------------------------------------------------
(* Properties *)

Active(t) == task[t].pc # "idle"

EmergencyRequest(t) == Active(t) /\ IsEmergency(task[t].query)

Answered(t) == task[t].answer # None

\* C1: while a request whose query contains an emergency phrase is handled,
\* neither the vector search nor the generation-model call is invoked.
C1_EmergencySkipsRetrievalAndGeneration ==
    \A t \in Tasks :
        EmergencyRequest(t) => ~task[t].searched /\ ~task[t].generated

\* C2: the Answer returned for a query containing an emergency phrase has
\* confidence 1.0, an empty source list and the emergency flag set.
C2_EmergencyAnswerIsFixed ==
    \A t \in Tasks :
        EmergencyRequest(t) /\ Answered(t) =>
            LET a == task[t].answer[1]
            IN /\ a.confidence = One
               /\ a.sources = <<>>
               /\ "emergency" \in DOMAIN a
               /\ a.emergency

\* C3: a request whose query contains an emergency phrase is never answered
\* with a cached non-emergency answer.
C3_EmergencyNeverServedStaleAnswer ==
    \A t \in Tasks :
        EmergencyRequest(t) /\ Answered(t) =>
            ~(/\ task[t].answer[1].cached
              /\ task[t].answer[1].response # get_emergency_response)

\* C4: the cache holds no entry produced by an emergency answer or by a
\* no-match (empty retrieval) answer.
C4_OnlySynthesizedAnswersCached ==
    \A k \in DOMAIN store :
        /\ JsonLoads(store[k].val).response # get_emergency_response
        /\ JsonLoads(store[k].val).response # NoMatchText

\* C5: a returned Answer has cached = TRUE exactly when it was read from a
\* cache entry, and cached = FALSE exactly when the pipeline ran in that
\* request, a failed cache read included.
C5_CachedFlagAccurate ==
    \A t \in Tasks :
        Answered(t) =>
            /\ task[t].answer[1].cached = ~task[t].searched
            /\ task[t].cacheFailed => ~task[t].answer[1].cached

C5_Witness ==
    \E t \in Tasks :
        /\ Answered(t)
        /\ task[t].route = "voice"
        /\ task[t].answer[1].cached
        /\ ~task[t].searched

\* The normalized text of a query: trimmed and lower-cased.
NormalizedText(q) == Lower(Strip(q))

\* C6: two queries with the same normalized text and the same session get
\* the same key, and every key starts with "chat:".
C6_KeyNormalizes ==
    res # None =>
        LET a == arg[1][1]
            b == arg[1][2]
        IN /\ (NormalizedText(a[1]) = NormalizedText(b[1]) /\ a[2] = b[2])
                => res[1][1] = res[1][2]
           /\ StartsWith(res[1][1], KeyPrefix)
           /\ StartsWith(res[1][2], KeyPrefix)

C6_Witness ==
    /\ res # None
    /\ arg = Some(<< << <<" ", "Q", " ">>, <<"c">> >>, << <<"q">>, <<"c">> >> >>)
    /\ res[1][1] = res[1][2]

\* C7: two (query, session) pairs that differ in session or in normalized
\* query text get different keys.
C7_DistinctPairsDistinctKeys ==
    res # None =>
        LET a == arg[1][1]
            b == arg[1][2]
        IN (NormalizedText(a[1]) # NormalizedText(b[1]) \/ a[2] # b[2])
              => res[1][1] # res[1][2]

\* C8: after clear_session(s) returns successfully, a get for any query
\* under session s is a miss.
C8_ClearSessionRemovesEntries ==
    [][\A s \in Sessions :
          ClearSession(s, TRUE) =>
              \A q \in KeyQueries : CacheLookup(store', q, s) = None]_vars

\* C9: right after set(query, entry, session) a get(query, session) returns
\* an entry equal to the stored one, a hit is reported with cached = TRUE and
\* the entry's fields, every entry expires within CACHE_TTL, and a request
\* that finds no entry under its key runs the pipeline.
C9_RoundTripState ==
    /\ \A k \in DOMAIN store : store[k].ttl > 0 /\ store[k].ttl <= CACHE_TTL
    /\ \A t \in Tasks :
          Answered(t) /\ ~task[t].searched =>
              /\ task[t].answer[1].cached
              /\ task[t].local[1].is_cached

C9_RoundTripStep ==
    \A t \in Tasks :
        LET r == task[t]
        IN /\ \A ttsOk \in BOOLEAN :
                CacheSet(t, TRUE, ttsOk) =>
                    CacheLookup(store', r.query, r.session)
                        = Some(cache_data(r.local[1]))
           /\ (r.pc = "cache_get" /\ task'[t].pc # "cache_get") =>
                IF Key(r.query, r.session) \in DOMAIN store
                   /\ task'[t].local # None /\ task'[t].local[1].is_cached
                THEN Some(cache_data(task'[t].local[1]))
                        = CacheLookup(store, r.query, r.session)
                ELSE task'[t].searched \/ task'[t].err = "embed"

C9_CacheRoundTrip == [][C9_RoundTripStep /\ C9_RoundTripState']_vars

C9_Witness ==
    \E t \in Tasks :
        /\ Answered(t)
        /\ task[t].route = "text"
        /\ task[t].answer[1].cached
        /\ Key(task[t].query, task[t].session) \in DOMAIN store
        /\ store[Key(task[t].query, task[t].session)].ttl < CACHE_TTL
        /\ Some(cache_data(task[t].local[1]))
              = CacheLookup(store, task[t].query, task[t].session)

\* C10: a failing store makes neither get nor set raise: the request is not
\* ended by a cache error, a failed read is treated as a miss and the
\* pipeline runs, a failed write stores nothing and the route goes on (the
\* text route returns its Answer, the voice route goes on to speech
\* synthesis), and a request that met a cache failure and finished returns
\* an Answer.
C10_CacheState ==
    \A t \in Tasks :
        /\ task[t].err \notin {"cache_get", "cache_set"}
        /\ task[t].cacheFailed =>
              /\ task[t].pc = "error" => task[t].err \in {"embed", "search", "save", "tts"}
              /\ task[t].pc = "done" => Answered(t) /\ ~task[t].answer[1].cached

C10_CacheStep ==
    \A t \in Tasks :
        /\ \A ttsOk \in BOOLEAN :
              CacheSet(t, FALSE, ttsOk) =>
                  /\ store' = store
                  /\ task[t].route = "text" =>
                        task'[t].pc = "done" /\ task'[t].answer # None
                  /\ task[t].route = "voice" => task'[t].pc = "save" \/ ~ttsOk
        /\ (task[t].pc = "cache_get" /\ task'[t].cacheFailed) =>
              task'[t].searched \/ task'[t].err = "embed"

C10_CacheFailOpen == [][C10_CacheStep /\ C10_CacheState']_vars

C10_Witness ==
    \E t \in Tasks :
        /\ task[t].cacheFailed
        /\ task[t].pc = "done"
        /\ Answered(t)
        /\ Key(task[t].query, task[t].session) \notin DOMAIN store

\* C11: when the vector search returned an empty list for a request, the
\* generation model is not called for it, and the result of the pipeline and
\* the Answer returned to the caller have confidence 0.0 and no sources.
C11_EmptyRetrieval ==
    \A t \in Tasks :
        task[t].noMatch =>
            /\ ~task[t].generated
            /\ task[t].local # None
            /\ task[t].local[1].confidence = Zero
            /\ task[t].local[1].sources = <<>>
            /\ Answered(t) =>
                  /\ task[t].answer[1].confidence = Zero
                  /\ task[t].answer[1].sources = <<>>

C11_Witness ==
    \E t \in Tasks :
        /\ task[t].noMatch
        /\ task[t].searched
        /\ Answered(t)
        /\ task[t].answer[1].response = NoMatchText

\* Whether a response text starts with the low-confidence disclaimer.
HasDisclaimer(text) == text # <<>> /\ Head(text) = LowConfidenceDisclaimer

\* C12: the response text of every returned Answer starts with the
\* low-confidence disclaimer exactly when the Answer's confidence is below
\* 0.5, whichever path produced the Answer.
C12_DisclaimerIffLowConfidence ==
    \A t \in Tasks :
        Answered(t) =>
            (HasDisclaimer(task[t].answer[1].response)
                <=> FracLess(task[t].answer[1].confidence, Half))

\* A red-flag phrase stands in the text at some position, letter case aside.
HasRedFlag(text) ==
    \E k \in 1..Len(emergency_keywords) :
        \E i \in 1..Len(text) :
            /\ i + Len(emergency_keywords[k]) - 1 <= Len(text)
            /\ \A j \in 1..Len(emergency_keywords[k]) :
                  LowerChar(text[i + j - 1]) = emergency_keywords[k][j]

\* Two texts that differ in letter case only.
SameLetters(a, b) ==
    /\ Len(a) = Len(b)
    /\ \A i \in 1..Len(a) : LowerChar(a[i]) = LowerChar(b[i])

\* C13: detect_emergency_keywords returns TRUE exactly when the lower-cased
\* query contains a red-flag phrase, two queries that differ in letter case
\* only get the same result, and the call changes nothing but its result.
C13_EmergencyDetection ==
    res # None =>
        /\ res[1][1] = HasRedFlag(arg[1][1])
        /\ res[1][2] = HasRedFlag(arg[1][2])
        /\ SameLetters(arg[1][1], arg[1][2]) => res[1][1] = res[1][2]
        /\ store = <<>> /\ started = 0 /\ purge = None
        /\ \A t \in Tasks : task[t] = IdleTask

C13_Witness ==
    /\ res = Some(<<TRUE, TRUE>>)
    /\ arg[1][1] = <<"C", "H", "E", "S", "T", " ", "P", "A", "I", "N">>
    /\ arg[1][2] = <<"c", "h", "e", "s", "t", " ", "p", "a", "i", "n">>

\* The position of the first match of the list with the given origin URL.
FirstOccurrence(matches, url) ==
    CHOOSE i \in 1..Len(matches) :
        /\ matches[i].source_url = url
        /\ \A j \in 1..(i - 1) : matches[j].source_url # url

\* C14: the sources _extract_sources returns have pairwise distinct URLs,
\* are no more than the matches given, and are exactly the distinct URLs of
\* the matches in the order of their first occurrence.
C14_DedupeDistinctInOrder ==
    res # None =>
        LET matches == arg[1]
            sources == res[1]
        IN /\ \A i, j \in 1..Len(sources) :
                 i # j => sources[i].url # sources[j].url
           /\ Len(sources) <= Len(matches)
           /\ { sources[i].url : i \in 1..Len(sources) }
                 = { matches[i].source_url : i \in 1..Len(matches) }
           /\ \A i, j \in 1..Len(sources) :
                 i < j => FirstOccurrence(matches, sources[i].url)
                             < FirstOccurrence(matches, sources[j].url)

C14_Witness ==
    /\ res # None
    /\ Len(arg[1]) = 3
    /\ arg[1][1].source_url = "u2"
    /\ arg[1][2].source_url = "u1"
    /\ arg[1][3].source_url = "u2"
    /\ Len(res[1]) = 2
    /\ res[1][1].url = "u2"
    /\ res[1][2].url = "u1"

\* C15: the relevance score of the Source kept for a URL is the highest
\* score among the matches with that URL.
C15_SurvivorHasMaxScore ==
    res # None =>
        \A k \in 1..Len(res[1]) :
            \A i \in 1..Len(arg[1]) :
                arg[1][i].source_url = res[1][k].url =>
                    ~FracLess(res[1][k].relevance_score,
                              Frac(arg[1][i].score, 100))

\* The rank the index gave the chunk with the given id.
RankOf(ranking, id) == CHOOSE i \in 1..Len(ranking) : ranking[i].id = id

C17_TopKPositive ==
    res # None =>
        /\ ~(res[1].stage = "rag" /\ res[1].raised)
        /\ res[1].stage = "searched" => res[1].top_k >= 1

\* C18: when the generation-model call fails for a query without red-flag
\* phrase and a non-empty chunk list, generate_response raises nothing and
\* returns the apologetic text with confidence 0.0 and emergency = FALSE.
C18_GenerationFailureFallback ==
    (/\ res # None
     /\ ~arg[1].llmOk
     /\ arg[1].context_chunks # <<>>
     /\ ~HasRedFlag(arg[1].query)) =>
        /\ ~res[1].raised
        /\ res[1].value # None
        /\ res[1].value[1].response = ApologyText
        /\ res[1].value[1].confidence = Zero
        /\ res[1].value[1].emergency = FALSE

C18_Witness ==
    /\ res # None
    /\ ~arg[1].llmOk
    /\ Len(arg[1].context_chunks) = 2
    /\ arg[1].query = <<"q">>
    /\ ~res[1].raised
    /\ res[1].value[1].response = ApologyText

\* C19: no accepted request ends with an error response because the cache,
\* the retrieval store, the generation model or the history store failed:
\* the caller gets an Answer.
C19_FailuresDegrade ==
    \A t \in Tasks :
        /\ task[t].err \notin {"cache_get", "cache_set", "search", "llm", "save"}
        /\ (task[t].pc = "done" /\ task[t].searched) => Answered(t)

\* C20: a request whose query text is longer than max_length is rejected
\* before the pipeline runs, on the text route and on the voice route: no
\* cache read, retrieval, generation, persistence or cache write happens.
C20_LongQueryRejected ==
    \A t \in Tasks :
        Len(task[t].query) > max_length =>
            /\ task[t].pc = "rejected"
            /\ ~task[t].searched
            /\ ~task[t].generated
            /\ task[t].local = None
            /\ \A s \in EntrySessions : Key(task[t].query, s) \notin DOMAIN store

\* The fraction c is min(1, mean of the scores of the matches).
IsCappedMean(c, matches) ==
    IF SumScores(matches) > 100 * Len(matches)
    THEN c = One
    ELSE c[1] * 100 * Len(matches) = c[2] * SumScores(matches)

\* C21: when the pipeline runs for a query without red-flag phrase, the
\* search returns a non-empty list and the generation call succeeds, the
\* confidence of the result is min(1, mean of the scores of all matches,
\* duplicates of a URL included); the matches u1 at 0.9 and u1 at 0.7 give
\* one source with score 0.9 and confidence 0.8; the Answer returned carries
\* the confidence and the sources of the result.
C21_ConfidenceStep ==
    \A t \in Tasks, ok \in BOOLEAN, matches \in IndexResults :
        (/\ CacheMiss(t, ok, "none", matches, TRUE)
         /\ matches # <<>>
         /\ ~HasRedFlag(task[t].query)) =>
            /\ IsCappedMean(task'[t].local[1].confidence, matches)
            /\ (/\ Len(matches) = 2
                /\ matches[1].source_url = matches[2].source_url
                /\ matches[1].score = 90
                /\ matches[2].score = 70) =>
                    /\ Len(task'[t].local[1].sources) = 1
                    /\ task'[t].local[1].sources[1].relevance_score = Frac(9, 10)
                    /\ task'[t].local[1].confidence = Frac(8, 10)

C21_AnswerState ==
    \A t \in Tasks :
        (Answered(t) /\ task[t].local # None) =>
            /\ task[t].answer[1].confidence = task[t].local[1].confidence
            /\ task[t].answer[1].sources = task[t].local[1].sources

C21_ConfidenceIsCappedMean == [][C21_ConfidenceStep /\ C21_AnswerState']_vars

C21_Witness ==
    \E t \in Tasks :
        /\ Answered(t)
        /\ task[t].generated
        /\ ~task[t].answer[1].cached
        /\ task[t].answer[1].confidence = Frac(8, 10)
        /\ Len(task[t].answer[1].sources) = 1
        /\ task[t].answer[1].sources[1].relevance_score = Frac(9, 10)

\* Every request the specification admits has been handled.
AllDone ==
    /\ started = MaxConcurrent \/ started = MaxRequests
    /\ \A t \in DOMAIN task : task[t].pc \in {"idle", "done"}

\* C22: requests with the same normalized query and session, run
\* concurrently from an empty cache: the store changes only by a cache write,
\* a write leaves the entry equal to the writer's answer (so the entry at the
\* end is the last writer's), and at the end there is exactly one entry,
\* under the requests' key, and every request has returned an Answer.
C22_WriteStep ==
    /\ \A t \in DOMAIN task :
          CacheSet(t, TRUE, TRUE) =>
              CacheLookup(store', task[t].query, task[t].session)
                  = Some(cache_data(task[t].local[1]))
    /\ store' # store => \E t \in DOMAIN task : CacheSet(t, TRUE, TRUE)

C22_EndState ==
    AllDone =>
        /\ \A t \in DOMAIN task : task[t].pc = "done" => Answered(t)
        /\ \A t \in DOMAIN task :
              task[t].pc = "done" =>
                  DOMAIN store = { Key(task[t].query, task[t].session) }
        /\ \E t \in DOMAIN task :
              /\ task[t].pc = "done"
              /\ ~task[t].answer[1].cached
              /\ CacheLookup(store, task[t].query, task[t].session)
                    = Some(cache_data(task[t].local[1]))

C22_LastWriterWins == [][C22_WriteStep /\ C22_EndState']_vars

C22_Witness ==
    /\ AllDone
    /\ task[1].pc = "done" /\ task[2].pc = "done"
    /\ ~task[1].answer[1].cached /\ ~task[2].answer[1].cached
    /\ cache_data(task[1].local[1]) # cache_data(task[2].local[1])
    /\ CacheLookup(store, task[1].query, task[1].session)
          = Some(cache_data(task[1].local[1]))

\* Task u is suspended at an await of its route.
Suspended(u) == task[u].pc \in {"cache_get", "save", "cache_set"}

\* C23: while a request is inside its retrieval or generation call, a
\* concurrent request that is suspended at an I/O boundary can take a step.
C23_OthersRunDuringPipeline ==
    \A t, u \in DOMAIN task :
        (t # u /\ task[t].pc = "rag" /\ Suspended(u)) => ENABLED ConcStep(u)

\* C24: a cache entry is never modified after its creation: as long as a key
\* stays in the store, the value under it stays the one first written.
C24_EntriesImmutable ==
    [][\A k \in DOMAIN store \cap DOMAIN store' :
          store'[k].val = store[k].val]_vars

\* The request of task t was served from the cache.
ServedFromCache(t) == task[t].local # None /\ task[t].local[1].is_cached

\* C25: a request that finds a live entry under its key takes the entry's
\* answer, invokes neither embedding nor search nor generation, writes
\* nothing to the cache, and the Answer it returns is the entry's, with
\* cached = TRUE; the text route returns it at once.
C25_HitState ==
    \A t \in Tasks :
        ServedFromCache(t) =>
            /\ ~task[t].searched
            /\ ~task[t].generated
            /\ task[t].pc # "cache_set"
            /\ task[t].err \notin {"embed", "search", "cache_get", "cache_set"}
            /\ task[t].route = "text" => task[t].pc = "done"
            /\ task[t].pc = "done" =>
                  /\ Answered(t)
                  /\ task[t].answer[1].cached
                  /\ cache_data(task[t].answer[1]) = cache_data(task[t].local[1])

C25_HitStep ==
    \A t \in Tasks :
        /\ (task[t].pc = "cache_get" /\ ServedFromCache(t)') =>
              /\ store' = store
              /\ Some(cache_data(task'[t].local[1]))
                    = CacheLookup(store, task[t].query, task[t].session)
        /\ (ServedFromCache(t) /\ task'[t] # task[t]) => store' = store

C25_CacheHitReturns == [][C25_HitStep /\ C25_HitState']_vars

C25_Witness ==
    \E t \in Tasks :
        /\ ServedFromCache(t)
        /\ task[t].route = "voice"
        /\ task[t].pc = "done"
        /\ task[t].answer[1].cached
        /\ ~task[t].generated
        /\ CacheLookup(store, task[t].query, task[t].session)
              = Some(cache_data(task[t].answer[1]))

\* Task u ran the pipeline for its request, so that its answer is one the
\* route writes to the cache.
WroteEntry(u) == task[u].local # None /\ ~task[u].local[1].is_cached

\* C26: a request served from the cache gets an entry written by a request
\* of the same session and the same normalized query text.
C26_SessionIsolation ==
    \A t \in DOMAIN task :
        ServedFromCache(t) =>
            \E u \in DOMAIN task :
                /\ u # t
                /\ WroteEntry(u)
                /\ task[u].session = task[t].session
                /\ NormalizedText(task[u].query) = NormalizedText(task[t].query)
                /\ cache_data(task[u].local[1]) = cache_data(task[t].local[1])

\* The entry under the key of task t's request is the answer task t got from
\* the pipeline after a cache read that found no entry.
HoldsOwnEntry(t) ==
    /\ WroteEntry(t)
    /\ ~task[t].cacheFailed
    /\ CacheLookup(store, task[t].query, task[t].session)
          = Some(cache_data(task[t].local[1]))

\* C27: a request that ends with an error response has written nothing to
\* the cache: the step in which a request fails leaves the store as it was,
\* and no failed request has its own answer stored under its key.
C27_ErrorStep ==
    \A t \in DOMAIN task :
        (task[t].pc # "error" /\ task'[t].pc = "error") => store' = store

C27_ErrorState ==
    \A t \in DOMAIN task : task[t].pc = "error" => ~HoldsOwnEntry(t)

C27_ErrorLeavesCacheUnchanged == [][C27_ErrorStep /\ C27_ErrorState']_vars

\* The history documents of session s, one per request that inserted one.
Persisted(s) ==
    { t \in DOMAIN task :
        task[t].record # None /\ task[t].record[1].session_id = s }

\* The requests of session s that returned an Answer with cached = FALSE.
ReturnedUncached(s) ==
    { t \in DOMAIN task :
        task[t].session = s /\ Answered(t) /\ ~task[t].answer[1].cached }

\* No request is between its arrival and its response.
Quiescent ==
    \A t \in DOMAIN task : task[t].pc \in {"idle", "done", "error", "rejected"}

\* C28: in the text route a cache hit persists nothing, a miss persists its
\* record once and before it writes the cache, and once every request has
\* its response the records of a session are as many as its requests that
\* returned an Answer with cached = FALSE.
C28_HistoryState ==
    /\ \A t \in DOMAIN task :
          /\ ServedFromCache(t) => task[t].record = None
          /\ task[t].pc = "save" => task[t].record = None
          /\ task[t].pc = "cache_set" =>
                task[t].record = Some(QueryDocument(task[t]))
          /\ task[t].record # None => ~task[t].record[1].cached
    /\ Quiescent =>
          \A s \in Sessions :
              Cardinality(Persisted(s)) = Cardinality(ReturnedUncached(s))

C28_HistoryStep ==
    \A t \in DOMAIN task :
        /\ task[t].record # None => task'[t].record = task[t].record
        /\ (task[t].record = None /\ task'[t].record # None) =>
              task[t].pc = "save" /\ store' = store
        /\ (task'[t] # task[t] /\ store' # store) => task[t].record # None

C28_HistoryMatchesUncachedAnswers == [][C28_HistoryStep /\ C28_HistoryState']_vars

C28_Witness ==
    /\ Quiescent
    /\ \E s \in Sessions :
          /\ Cardinality(Persisted(s)) = 1
          /\ \E t, u \in DOMAIN task :
                /\ task[t].session = s /\ task[u].session = s
                /\ ServedFromCache(t) /\ Answered(t)
                /\ HoldsOwnEntry(u) /\ Answered(u)

\* C29: a voice request whose file's content type does not start with
\* "audio/" is answered with status 400, and nothing was transcribed, read
\* from the cache or run in the pipeline for it.
C29_BadContentTypeIs400 ==
    \A t \in DOMAIN task :
        task[t].err = "content_type" =>
            /\ task[t].status = 400
            /\ task[t].query = <<>>
            /\ ~task[t].temp_file
            /\ ~task[t].searched
            /\ task[t].local = None

\* C30: when a voice request has finished, with an Answer or with an error,
\* its temporary audio file does not exist.
C30_FinishedState ==
    \A t \in DOMAIN task :
        task[t].pc \in {"done", "error", "idle"} => ~task[t].temp_file

C30_FinishStep ==
    \A t \in DOMAIN task :
        /\ (task[t].temp_file /\ task'[t].pc \in {"done", "error"}) =>
              ~task'[t].temp_file
        /\ (task[t].temp_file /\ task'[t].pc \notin {"done", "error"}) =>
              task'[t].temp_file

C30_TempFileRemoved == [][C30_FinishStep /\ C30_FinishedState']_vars

C30_Witness ==
    \E t \in DOMAIN task :
        /\ task[t].route = "voice"
        /\ task[t].pc = "error"
        /\ task[t].err \in {"tts", "save"}
        /\ HoldsOwnEntry(t)
        /\ ~task[t].temp_file

====
